---- MODULE Spec2Model ----
(***************************************************************************)
(* Model of the rozenite-hermes-profiler plugin.                           *)
(*                                                                         *)
(*   runtime : src/src/react-native/useHermesProfilerDevTools.ts           *)
(*   panel   : src/src/profiler-panel.tsx                                  *)
(*   server  : src/server/registerDevServerMiddleware.cjs                  *)
(*                                                                         *)
(* Strings are sequences of one-character strings, so that split, basename *)
(* and the filename pattern are computed character by character.           *)
(***************************************************************************)
EXTENDS Integers, Sequences, FiniteSets, TLC

\* ------------------------------------------------------------------------
\* Bounds of the model
\* ------------------------------------------------------------------------
\* Presses of the Start/Stop button the panel's user makes.
MaxPresses == 3
\* Largest value the panel's clock (Date.now()) reaches.
MaxClock == 1
\* Messages to the panel that the bridge may lose.
MaxDrops == 1
\* Messages the runtime receives when it is specified alone.
MaxMessages == 2
\* Events the panel receives when it is specified alone.
MaxEvents == 2

\* ------------------------------------------------------------------------
\* Strings
\* ------------------------------------------------------------------------
\* The JavaScript value undefined, kept apart from every string of characters.
Undef == <<"<undefined>">>
\* An undefined number.
NoSize == -1

sProfileStem ==
    <<"p","r","o","f","i","l","e","-","A","-","1","-","B">>
sCpuprofile == <<".","c","p","u","p","r","o","f","i","l","e">>
sConverted == <<"-","c","o","n","v","e","r","t","e","d",".","j","s","o","n">>
sDefaultName ==
    <<"h","e","r","m","e","s","-","p","r","o","f","i","l","e",".","t","r","a","c","e">>
sOctet ==
    <<"a","p","p","l","i","c","a","t","i","o","n","/","o","c","t","e","t","-","s","t","r","e","a","m">>
\* Raw traces the native profiler may report: a file, and a directory.
RawTracePath == <<"/","d","/">> \o sProfileStem \o sCpuprofile
RawTraceDir == <<"/","d","/">>

\* JavaScript truthiness of a string-or-undefined value.
Truthy(s) == s # Undef /\ s # <<>>

\* The largest element of a non-empty set of numbers, 0 for the empty set.
MaxOf(S) == IF S = {} THEN 0 ELSE CHOOSE k \in S : \A j \in S : j <= k

\* s.split('/').pop(): the characters after the last '/'.
SplitPop(s) ==
    SubSeq(s, MaxOf({k \in 1..Len(s) : s[k] = "/"}) + 1, Len(s))

sProfilerTimeout ==
    <<"P","r","o","f","i","l","e","r"," ","t","i","m","e","o","u","t">>
\* Messages of errors thrown by the external profiler (e.message).
sStartFailed == <<"s","t","a","r","t"," ","f","a","i","l","e","d">>
sStopFailed == <<"s","t","o","p"," ","f","a","i","l","e","d">>

\* The base64 alphabet.
B64Alphabet ==
    <<"A","B","C","D","E","F","G","H","I","J","K","L","M","N","O","P",
      "Q","R","S","T","U","V","W","X","Y","Z","a","b","c","d","e","f",
      "g","h","i","j","k","l","m","n","o","p","q","r","s","t","u","v",
      "w","x","y","z","0","1","2","3","4","5","6","7","8","9","+","/">>
B64(n) == B64Alphabet[n + 1]

\* Base64 of a sequence of bytes (RNFS.readFile(path, 'base64'),
\* Buffer.toString('base64')): every group of three bytes gives four
\* characters, a last group of one or two bytes is padded with '='.
Base64(bytes) ==
    LET n == Len(bytes)
        Byte(k) == IF k <= n THEN bytes[k] ELSE 0
        Char(k) ==
            LET g == 3 * ((k - 1) \div 4)
                pos == (k - 1) % 4
            IN IF pos = 0 THEN B64(Byte(g + 1) \div 4)
               ELSE IF pos = 1
               THEN B64((Byte(g + 1) % 4) * 16 + Byte(g + 2) \div 16)
               ELSE IF pos = 2
               THEN (IF g + 2 <= n
                     THEN B64((Byte(g + 2) % 16) * 4 + Byte(g + 3) \div 64)
                     ELSE "=")
               ELSE (IF g + 3 <= n THEN B64(Byte(g + 3) % 64) ELSE "=")
    IN [k \in 1..(4 * ((n + 2) \div 3)) |-> Char(k)]

\* The bytes of the raw trace on the device, "{}" followed by a newline.
RawTraceBytes == <<123, 125, 10>>

\* ------------------------------------------------------------------------
\* State
\* ------------------------------------------------------------------------
VARIABLES
    \* the bridge (an external framework): one FIFO channel each way
    toRuntime, toPanel, drops,
    \* the clock Date.now() reads
    now,
    \* runtime: one record per start-profiling message handled
    starts,
    \* runtime: one record per stop-profiling message handled (an invocation
    \* of the async handler, with its stopProfiling promise and its 9 s timer)
    handlers,
    \* panel: React state and the pendingStopTimer ref
    isProfiling, isStopping, statusMsg, traces, pendingStopTimer,
    \* panel: the armed no-response timers (ids), the next timer id, and the
    \* number of armed timers that clear the status line
    panelTimers, nextTimerId, clearTimers,
    \* panel: one record per tryEndpoints() call
    jobs,
    \* panel: button presses so far, and the last panel step with the state
    \* it started from (history)
    presses, lastPanel,
    \* panel (history): the types of the messages the panel sent, in order
    sendLog,
    \* server: the filename -> path cache, the files on the server's disk,
    \* the requests being handled, and the number of requests received
    profilePathCache, fsFiles, transforms, opens, requests,
    \* server (history): the registrations made by /open in order, the
    \* output paths the transform step returned, the paths whose content
    \* the serving endpoint returned, and the last GET with its answer
    registered, produced, served, lastGet,
    \* server: the module's started flag and serverPort, one record per call
    \* of startHermesProfilerServer, and one record per HTTP server created
    started, serverPort, calls, listeners

bridgeVars == <<toRuntime, toPanel, drops, now>>
runtimeVars == <<starts, handlers>>
panelVars ==
    <<isProfiling, isStopping, statusMsg, traces, pendingStopTimer,
      panelTimers, nextTimerId, clearTimers, jobs, presses, lastPanel,
      sendLog>>
bootVars == <<started, serverPort, calls, listeners>>
endpointVars ==
    <<profilePathCache, fsFiles, transforms, opens, requests,
      registered, produced, served, lastGet>>
serverVars == <<endpointVars, bootVars>>

\* ------------------------------------------------------------------------
\* Messages (PluginEvents)
\* ------------------------------------------------------------------------
StartProfilingMsg == [type |-> "start-profiling"]
StopProfilingMsg(save) == [type |-> "stop-profiling", saveInDownloads |-> save]
ProfilingStartedMsg(ts) == [type |-> "profiling-started", timestamp |-> ts]
ProfileDataMsg(filename, path, base64, size, mime, error) ==
    [type |-> "profile-data", filename |-> filename, path |-> path,
     base64 |-> base64, size |-> size, mime |-> mime, error |-> error]
\* No message (a handler that has sent nothing yet).
NoMsg == [type |-> "none"]
\* { error: String(e?.message || e) }
ProfileErrorMsg(err) == ProfileDataMsg(Undef, Undef, Undef, NoSize, Undef, err)

\* ------------------------------------------------------------------------
\* Runtime: useHermesProfilerDevTools
\* ------------------------------------------------------------------------
\* client.send: the message is handed to the bridge.
ClientSend(chan, msg) == Append(chan, msg)

\* react-native-fs is linked into the app (RNFS?.readFile is a function).
RNFSreadFile == TRUE

\* Mutant: the acknowledgement is sent whether or not startProfiling() threw.
StartReply_AlwaysAck(threw) == ProfilingStartedMsg(now)

\* The reply of the start handler: the acknowledgement, or the error of a
\* startProfiling() that threw.
StartReply(threw) ==
    IF threw THEN ProfileErrorMsg(sStartFailed) ELSE ProfilingStartedMsg(now)

\* subStart: the handler of start-profiling.
SubStart(threw) ==
    /\ toRuntime # <<>>
    /\ Head(toRuntime).type = "start-profiling"
    /\ toRuntime' = Tail(toRuntime)
    /\ toPanel' = ClientSend(toPanel, StartReply(threw))
    /\ starts' = Append(starts, [began |-> ~threw, at |-> now,
                                 reply |-> StartReply(threw)])
    /\ UNCHANGED <<drops, now, handlers, panelVars, serverVars>>

\* A handler invocation that has sent its reply and ended.
Finished(h, msg) ==
    [h EXCEPT !.pc = "done", !.sent = h.sent + 1, !.reply = msg]

\* What the race's rejection (timer, or a rejected stopProfiling) leads to:
\* the catch block sends the error.
CatchSend(h, err) == Finished(h, ProfileErrorMsg(err))

\* Mutant: no fallback name.
FilenameOf_NoDefault(path) == IF Truthy(path) THEN SplitPop(path) ELSE <<>>

\* const filename = path?.split('/')?.pop?.() || 'hermes-profile.trace'
FilenameOf(path) ==
    IF Truthy(path) /\ SplitPop(path) # <<>> THEN SplitPop(path) ELSE sDefaultName

\* The success send of the stop handler.
SuccessMsg(h) ==
    ProfileDataMsg(FilenameOf(h.path), h.path, h.base64, h.size, sOctet, Undef)

\* subStop up to its first await: stopProfiling(saveInDownloads) is called and
\* raced against a 9 s timer. A synchronous throw of stopProfiling is caught
\* before the timer is created.
SubStop(throws) ==
    /\ toRuntime # <<>>
    /\ Head(toRuntime).type = "stop-profiling"
    /\ toRuntime' = Tail(toRuntime)
    /\ LET h0 == [pc |-> "race", stopOp |-> "pending", timer |-> "armed",
                  save |-> Head(toRuntime).saveInDownloads,
                  path |-> Undef, base64 |-> Undef, size |-> NoSize,
                  sent |-> 0, reply |-> NoMsg]
           h1 == IF throws
                 THEN CatchSend([h0 EXCEPT !.stopOp = "threw", !.timer = "none"],
                                sStopFailed)
                 ELSE h0
       IN /\ handlers' = Append(handlers, h1)
          /\ toPanel' = IF throws THEN ClientSend(toPanel, h1.reply) ELSE toPanel
    /\ UNCHANGED <<drops, now, starts, panelVars, serverVars>>

\* Paths the external stopProfiling may resolve with.
StopPaths == {<<>>, RawTracePath, RawTraceDir}

\* After the race resolved with a path: read the file when there is a path,
\* send at once otherwise.
AfterRace(h, path) ==
    LET h1 == [h EXCEPT !.path = path]
    IN IF Truthy(path) /\ RNFSreadFile
       THEN [h1 EXCEPT !.pc = "readFile"]
       ELSE Finished(h1, SuccessMsg(h1))

\* The external stopProfiling promise resolves with a path.
StopResolves(i, path) ==
    /\ i \in DOMAIN handlers
    /\ handlers[i].stopOp = "pending"
    /\ LET h == [handlers[i] EXCEPT !.stopOp = "resolved"]
           h1 == IF h.pc = "race" THEN AfterRace(h, path) ELSE h
       IN /\ handlers' = [handlers EXCEPT ![i] = h1]
          /\ toPanel' = IF h1.sent > h.sent THEN ClientSend(toPanel, h1.reply)
                        ELSE toPanel
    /\ UNCHANGED <<toRuntime, drops, now, starts, panelVars, serverVars>>

\* The external stopProfiling promise rejects.
StopRejects(i) ==
    /\ i \in DOMAIN handlers
    /\ handlers[i].stopOp = "pending"
    /\ LET h == [handlers[i] EXCEPT !.stopOp = "rejected"]
           h1 == IF h.pc = "race" THEN CatchSend(h, sStopFailed) ELSE h
       IN /\ handlers' = [handlers EXCEPT ![i] = h1]
          /\ toPanel' = IF h1.sent > h.sent THEN ClientSend(toPanel, h1.reply)
                        ELSE toPanel
    /\ UNCHANGED <<toRuntime, drops, now, starts, panelVars, serverVars>>

\* Mutant: the timer's rejection reaches the catch block even after the race
\* was settled.
TimerExpiry_LateSend(h) == CatchSend([h EXCEPT !.timer = "fired"], sProfilerTimeout)

\* Mutant: the timer's rejection is not raced against stopProfiling.
TimerExpiry_Silent(h) == [h EXCEPT !.timer = "fired"]

\* What the 9 s timer's callback does to the handler: it rejects the race,
\* which matters only while the handler still awaits it.
TimerExpiry(h) ==
    LET h1 == [h EXCEPT !.timer = "fired"]
    IN IF h.pc = "race" THEN CatchSend(h1, sProfilerTimeout) ELSE h1

\* setTimeout(() => reject(new Error('Profiler timeout')), 9000) fires. The
\* timer is never cleared, so it also fires after the race was settled.
RuntimeTimerFires(i) ==
    /\ i \in DOMAIN handlers
    /\ handlers[i].timer = "armed"
    /\ LET h1 == TimerExpiry(handlers[i])
       IN /\ handlers' = [handlers EXCEPT ![i] = h1]
          /\ toPanel' = IF h1.sent > handlers[i].sent
                        THEN ClientSend(toPanel, h1.reply) ELSE toPanel
    /\ UNCHANGED <<toRuntime, drops, now, starts, panelVars, serverVars>>

\* await RNFS.readFile(path, 'base64') settles. A failure is caught by the
\* inner try, which warns and goes on to the send.
ReadFileSettles(i, ok) ==
    /\ i \in DOMAIN handlers
    /\ handlers[i].pc = "readFile"
    /\ IF ok THEN handlers[i].path = RawTracePath ELSE TRUE
    /\ LET h == handlers[i]
           h1 == IF ok
                 THEN [h EXCEPT !.pc = "stat", !.base64 = Base64(RawTraceBytes)]
                 ELSE Finished(h, SuccessMsg(h))
       IN /\ handlers' = [handlers EXCEPT ![i] = h1]
          /\ toPanel' = IF ok THEN toPanel ELSE ClientSend(toPanel, h1.reply)
    /\ UNCHANGED <<toRuntime, drops, now, starts, panelVars, serverVars>>

\* await RNFS.stat(path) settles: size = Number(stat.size || 0).
StatSettles(i, ok) ==
    /\ i \in DOMAIN handlers
    /\ handlers[i].pc = "stat"
    /\ LET h == IF ok THEN [handlers[i] EXCEPT !.size = Len(RawTraceBytes)]
                ELSE handlers[i]
           h1 == Finished(h, SuccessMsg(h))
       IN /\ handlers' = [handlers EXCEPT ![i] = h1]
          /\ toPanel' = ClientSend(toPanel, h1.reply)
    /\ UNCHANGED <<toRuntime, drops, now, starts, panelVars, serverVars>>

\* ------------------------------------------------------------------------
\* Server: pure helpers of registerDevServerMiddleware.cjs
\* ------------------------------------------------------------------------
\* Requests the server receives.
MaxRequests == 3
\* Open requests among them.
MaxOpens == 1
\* Calls of startHermesProfilerServer.
MaxCalls == 3

\* process.cwd() of the dev server.
sCwd == <<"/","w">>

\* s without its trailing '/' characters.
StripSlashes(s) ==
    SubSeq(s, 1, MaxOf({k \in 1..Len(s) : s[k] # "/"}))

\* path.basename(p) (POSIX): the last segment, trailing slashes ignored.
Basename(p) == SplitPop(StripSlashes(p))

\* path.dirname(p) (POSIX) of an absolute path without trailing slash.
Dirname(p) ==
    LET q == SubSeq(p, 1, Len(p) - Len(SplitPop(p)))
    IN IF Len(q) <= 1 THEN <<"/">> ELSE SubSeq(q, 1, Len(q) - 1)

EndsWith(s, suffix) ==
    /\ Len(s) >= Len(suffix)
    /\ SubSeq(s, Len(s) - Len(suffix) + 1, Len(s)) = suffix

\* originalFilename.replace(/\.cpuprofile$/, '-converted.json')
ConvertedFilename(name) ==
    IF EndsWith(name, sCpuprofile)
    THEN SubSeq(name, 1, Len(name) - Len(sCpuprofile)) \o sConverted
    ELSE name

\* path.join(dir, name) for a name without '/': '.', '..' and '' are
\* normalised away.
PathJoin(dir, name) ==
    IF name = <<>> \/ name = <<".">> THEN dir
    ELSE IF name = <<".", ".">> THEN Dirname(dir)
    ELSE IF dir = <<"/">> THEN dir \o name
    ELSE dir \o <<"/">> \o name

\* The path the file system resolves p to: relative paths start at cwd.
IsAbsolute(p) == p # <<>> /\ p[1] = "/"
Resolve(p) == IF IsAbsolute(p) THEN p ELSE sCwd \o <<"/">> \o p

HexUpper == {"A","B","C","D","E","F","0","1","2","3","4","5","6","7","8","9"}
Digit == {"0","1","2","3","4","5","6","7","8","9"}
Lit(s) == [k \in DOMAIN s |-> [plus |-> FALSE, set |-> {s[k]}]]
\* /^profile-[A-F0-9-]+-\d+-[A-F0-9]+-converted\.json$/ as a sequence of
\* items: one character of a set, or one or more of them.
ProfilePattern ==
    Lit(<<"p","r","o","f","i","l","e","-">>)
    \o <<[plus |-> TRUE, set |-> HexUpper \cup {"-"}]>>
    \o Lit(<<"-">>)
    \o <<[plus |-> TRUE, set |-> Digit]>>
    \o Lit(<<"-">>)
    \o <<[plus |-> TRUE, set |-> HexUpper]>>
    \o Lit(sConverted)

\* RegExp.test for an anchored pattern (^...$), by backtracking: whether
\* the items of pat from the i-th on match str from its j-th character to
\* its end.
RECURSIVE MatchFrom(_, _, _, _)
MatchFrom(pat, str, i, j) ==
    IF i > Len(pat) THEN j > Len(str)
    ELSE /\ j <= Len(str)
         /\ str[j] \in pat[i].set
         /\ \/ MatchFrom(pat, str, i + 1, j + 1)
            \/ pat[i].plus /\ MatchFrom(pat, str, i, j + 1)
RegexMatch(pat, str) == MatchFrom(pat, str, 1, 1)

\* Mutant: the pattern without its end anchor ($).
ValidFilename_NoEndAnchor(filename) ==
    \E k \in 1..Len(filename) :
        RegexMatch(ProfilePattern, SubSeq(filename, 1, k))

\* The filename check of the serving endpoint.
ValidFilename(filename) == RegexMatch(ProfilePattern, filename)

\* typeof req.body?.path === 'string' ? req.body.path : ''
BodyPath(p) == IF p = Undef THEN <<>> ELSE p

\* The content of the converted profile: "{}".
ConvertedBytes == <<123, 125>>

\* A JSON body the server sends (absent fields are undefined).
Json(ok, error, stderr, outputPath, outputFilename, outputBase64) ==
    [ok |-> ok, error |-> error, stderr |-> stderr, outputPath |-> outputPath,
     outputFilename |-> outputFilename, outputBase64 |-> outputBase64]
ErrorJson(error, stderr) == Json("undefined", error, stderr, Undef, Undef, Undef)
Response(status, json) == [status |-> status, json |-> json]
NoResponse == [status |-> 0, json |-> ErrorJson(Undef, Undef)]

sMissingPath == <<"m","i","s","s","i","n","g","_","p","a","t","h">>
sTransformFailed ==
    <<"t","r","a","n","s","f","o","r","m","_","f","a","i","l","e","d">>
sInvalidFilename ==
    <<"i","n","v","a","l","i","d","_","f","i","l","e","n","a","m","e">>
sNotFound == <<"n","o","t","_","f","o","u","n","d">>
sENOENT == <<"E","N","O","E","N","T">>
sOpenFailed == <<"o","p","e","n"," ","f","a","i","l","e","d">>
\* What the converter writes to stderr when it fails.
sStderr == <<"b","a","d"," ","t","r","a","c","e">>

\* The file the transform handler reads after the converter has closed.
OutputPathOf(rawPath) == PathJoin(sCwd, ConvertedFilename(Basename(rawPath)))

\* The exit code of a converter that has not closed.
NoExit == -1

\* Mutant: the exit code is not looked at.
TransformAnswer_IgnoresExitCode(rawPath, code, files) ==
    IF OutputPathOf(rawPath) \in files
    THEN Response(200, Json("true", Undef, Undef, OutputPathOf(rawPath),
                            ConvertedFilename(Basename(rawPath)),
                            Base64(ConvertedBytes)))
    ELSE Response(500, ErrorJson(sENOENT, Undef))

\* The answer of the transform handler once the converter has closed with
\* `code`, the files on disk being `files`.
TransformAnswer(rawPath, code, files) ==
    IF code # 0
    THEN Response(500, ErrorJson(sTransformFailed, sStderr))
    ELSE IF OutputPathOf(rawPath) \in files
    THEN Response(200, Json("true", Undef, Undef, OutputPathOf(rawPath),
                            ConvertedFilename(Basename(rawPath)),
                            Base64(ConvertedBytes)))
    ELSE Response(500, ErrorJson(sENOENT, Undef))

\* ------------------------------------------------------------------------
\* Server: the request handlers
\* ------------------------------------------------------------------------
\* POST /rozenite/hermes/transform up to the spawn of the converter.
TransformRequest(p) ==
    /\ requests < MaxRequests
    /\ requests' = requests + 1
    /\ transforms' = Append(transforms,
          IF BodyPath(p) = <<>>
          THEN [rawPath |-> BodyPath(p), pc |-> "done", spawned |-> 0,
                code |-> NoExit,
                response |-> Response(400, ErrorJson(sMissingPath, Undef))]
          ELSE [rawPath |-> BodyPath(p), pc |-> "child", spawned |-> 1,
                code |-> NoExit, response |-> NoResponse])
    /\ UNCHANGED <<bridgeVars, runtimeVars, panelVars, bootVars, profilePathCache,
                   fsFiles, opens, registered, produced, served, lastGet>>

\* The bodies a client may post to /transform: without a path or with one.
TransformPaths == {Undef, RawTracePath}

\* What the close handler computes from the path of a request, tabulated
\* for the paths that reach the spawn: the output path, whether the path
\* names a .cpuprofile, and the answer for each exit code and each outcome
\* of reading the output.
ConverterTable ==
    [p \in {BodyPath(q) : q \in TransformPaths} \ {<<>>} |->
        [out |-> OutputPathOf(p),
         cpuprofile |-> EndsWith(p, sCpuprofile),
         answer |-> [code \in {0, 1}, readable \in BOOLEAN |->
                        TransformAnswer(p, code,
                            IF readable THEN {OutputPathOf(p)} ELSE {})]]]

\* The converter closes: child.on('close'). A converter that exits with 0 on
\* a .cpuprofile has written the converted file to the cwd, or has not.
ChildCloses(i, code, wrote) ==
    /\ i \in DOMAIN transforms
    /\ transforms[i].pc = "child"
    /\ IF wrote THEN code = 0 /\ ConverterTable[transforms[i].rawPath].cpuprofile
       ELSE TRUE
    /\ LET row == ConverterTable[transforms[i].rawPath]
           files == IF wrote THEN fsFiles \cup {row.out} ELSE fsFiles
           ans == row.answer[code, row.out \in files]
       IN /\ fsFiles' = files
          /\ transforms' = [transforms EXCEPT ![i].pc = "done",
                                              ![i].code = code,
                                              ![i].response = ans]
          /\ produced' = IF ans.status = 200
                         THEN produced \cup {row.out} ELSE produced
    /\ UNCHANGED <<bridgeVars, runtimeVars, panelVars, bootVars, profilePathCache,
                   opens, requests, registered, served, lastGet>>

\* profilePathCache.get(filename): undefined when there is no entry.
CacheGet(cache, filename) ==
    IF filename \in DOMAIN cache THEN cache[filename] ELSE Undef

\* profilePathCache.set(filename, filePath)
CacheSet(cache, filename, filePath) ==
    [f \in DOMAIN cache \cup {filename} |->
        IF f = filename THEN filePath ELSE cache[f]]

\* The answer of GET /rozenite/hermes/profile/:filename, with what the
\* handler did on the way: whether it consulted the cache, which file it read.
ProfileAnswer(filename) ==
    IF ~ValidFilename(filename)
    THEN [filename |-> filename, status |-> 400, error |-> sInvalidFilename,
          consulted |-> FALSE, readPath |-> Undef]
    ELSE LET profilePath == CacheGet(profilePathCache, filename)
         IN IF ~Truthy(profilePath) \/ Resolve(profilePath) \notin fsFiles
            THEN [filename |-> filename, status |-> 404, error |-> sNotFound,
                  consulted |-> TRUE, readPath |-> Undef]
            ELSE [filename |-> filename, status |-> 200, error |-> Undef,
                  consulted |-> TRUE, readPath |-> profilePath]

\* GET /rozenite/hermes/profile/:filename (synchronous).
ProfileRequest(filename) ==
    /\ requests < MaxRequests
    /\ requests' = requests + 1
    /\ LET answer == ProfileAnswer(filename)
       IN /\ lastGet' = answer
          /\ served' = IF answer.status = 200
                       THEN served \cup {Resolve(answer.readPath)}
                       ELSE served
    /\ UNCHANGED <<bridgeVars, runtimeVars, panelVars, bootVars, profilePathCache,
                   fsFiles, transforms, opens, registered, produced>>

\* POST /rozenite/hermes/open up to its first await: the path is registered
\* under its basename before anything is opened.
OpenRequest(p) ==
    /\ requests < MaxRequests
    /\ Len(opens) < MaxOpens
    /\ requests' = requests + 1
    /\ LET filePath == BodyPath(p)
           filename == Basename(filePath)
       IN IF filePath = <<>>
          THEN /\ opens' = Append(opens,
                     [path |-> filePath, pc |-> "done", opened |-> <<>>,
                      response |-> Response(400, ErrorJson(sMissingPath, Undef))])
               /\ UNCHANGED <<profilePathCache, registered>>
          ELSE /\ opens' = Append(opens,
                     [path |-> filePath, pc |-> "import", opened |-> <<>>,
                      response |-> NoResponse])
               /\ profilePathCache' = CacheSet(profilePathCache, filename, filePath)
               /\ registered' = Append(registered,
                                       [filename |-> filename, path |-> filePath])
    /\ UNCHANGED <<bridgeVars, runtimeVars, panelVars, bootVars, fsFiles, transforms,
                   produced, served, lastGet>>

\* An awaited step of the open handler fails: the catch answers 500.
OpenFails(o) ==
    [o EXCEPT !.pc = "done",
              !.response = Response(500, ErrorJson(sOpenFailed, Undef))]

\* Mutant: the DevTools URL is opened without chrome://inspect before it.
OpenAdvance_SkipsInspect(o) ==
    IF o.pc = "import" THEN [o EXCEPT !.pc = "devtools"]
    ELSE [o EXCEPT !.pc = "done", !.opened = Append(@, "devtools"),
                   !.response = Response(200, Json("true", Undef, Undef,
                                                   Undef, Undef, Undef))]

\* The open handler's awaits in order: import('open'), open(chrome://inspect),
\* the 500 ms pause, open(devtoolsUrl); then the ok answer.
OpenAdvance(o) ==
    IF o.pc = "import" THEN [o EXCEPT !.pc = "inspect"]
    ELSE IF o.pc = "inspect"
    THEN [o EXCEPT !.pc = "pause", !.opened = Append(@, "chrome://inspect")]
    ELSE IF o.pc = "pause" THEN [o EXCEPT !.pc = "devtools"]
    ELSE [o EXCEPT !.pc = "done", !.opened = Append(@, "devtools"),
                   !.response = Response(200, Json("true", Undef, Undef,
                                                   Undef, Undef, Undef))]

\* Mutant: a failed open takes its filename out of the cache again.
OpenSettles_ForgetsOnFailure(i, ok) ==
    /\ i \in DOMAIN opens
    /\ opens[i].pc # "done"
    /\ IF ok THEN TRUE ELSE opens[i].pc # "pause"
    /\ opens' = [opens EXCEPT ![i] = IF ok THEN OpenAdvance(@) ELSE OpenFails(@)]
    /\ profilePathCache' =
          IF ok THEN profilePathCache
          ELSE [f \in DOMAIN profilePathCache \ {Basename(opens[i].path)} |->
                   profilePathCache[f]]
    /\ UNCHANGED <<bridgeVars, runtimeVars, panelVars, bootVars,
                   fsFiles, transforms, requests, registered, produced,
                   served, lastGet>>

\* An awaited step of an open request settles.
OpenSettles(i, ok) ==
    /\ i \in DOMAIN opens
    /\ opens[i].pc # "done"
    /\ IF ok THEN TRUE ELSE opens[i].pc # "pause"
    /\ opens' = [opens EXCEPT ![i] = IF ok THEN OpenAdvance(@) ELSE OpenFails(@)]
    /\ UNCHANGED <<bridgeVars, runtimeVars, panelVars, bootVars, profilePathCache,
                   fsFiles, transforms, requests, registered, produced,
                   served, lastGet>>

\* A file disappears from the server's disk.
FileRemoved(f) ==
    /\ f \in fsFiles
    /\ fsFiles' = fsFiles \ {f}
    /\ UNCHANGED <<bridgeVars, runtimeVars, panelVars, bootVars, profilePathCache,
                   transforms, opens, requests, registered, produced, served,
                   lastGet>>

\* ------------------------------------------------------------------------
\* Panel: HermesProfilerPanel
\* ------------------------------------------------------------------------
\* The JavaScript value null.
Null == <<"<null>">>

DecimalDigits == <<"0","1","2","3","4","5","6","7","8","9">>
\* `${n}`: the decimal digits of a natural number below 10^9.
ToDecimal(n) ==
    LET d == CHOOSE k \in 1..9 : n < 10 ^ k /\ (k = 1 \/ n >= 10 ^ (k - 1))
    IN [k \in 1..d |-> DecimalDigits[((n \div 10 ^ (d - k)) % 10) + 1]]

\* a || b on strings.
OrElse(a, b) == IF Truthy(a) THEN a ELSE b

\* The port of the local server (DEFAULT_PORT of server/config.mjs).
DEFAULT_PORT == 9337
\* The two addresses tryEndpoints posts to, in order.
Candidates ==
    <<[host |-> "localhost", port |-> DEFAULT_PORT,
       route |-> "/rozenite/hermes/transform"],
      [host |-> "127.0.0.1", port |-> DEFAULT_PORT,
       route |-> "/rozenite/hermes/transform"]>>

\* prev.map((t) => (t.id === id ? updated : t)), updated[k] being the new
\* value of the k-th entry.
MapTraces(prev, id, updated) ==
    [k \in DOMAIN prev |-> IF prev[k].id = id THEN updated[k] ELSE prev[k]]

\* The entry recorded for an error event.
ErrorTrace(id, data) ==
    [id |-> id, receivedAt |-> now, filename |-> data.filename, path |-> Undef,
     size |-> NoSize, error |-> data.error, transforming |-> "undefined",
     transformError |-> Undef, transformedPath |-> Undef]

\* The entry recorded while the transform runs.
Placeholder(id, data) ==
    [id |-> id, receivedAt |-> now, filename |-> data.filename,
     path |-> data.path, size |-> NoSize, error |-> Undef,
     transforming |-> "true", transformError |-> Undef,
     transformedPath |-> Undef]

\* Mutant: the missing path is recorded but the entry stays transforming.
NoPathReturned_StaysTransforming(t) ==
    [t EXCEPT !.transformError = <<"No path returned">>]

\* The update of an entry whose profile-data carried no path.
NoPathReturned(t) ==
    [t EXCEPT !.transforming = "false",
              !.transformError = <<"No path returned">>]

\* The history record of a panel step.
PanelStep(op) ==
    [op |-> op, wasProfiling |-> isProfiling, wasStopping |-> isStopping]

\* subStarted: the handler of profiling-started.
SubStarted ==
    /\ isProfiling' = TRUE
    /\ lastPanel' = PanelStep("profiling-started")
    /\ UNCHANGED <<isStopping, statusMsg, traces, pendingStopTimer,
                   panelTimers, nextTimerId, clearTimers, jobs, presses,
                   sendLog>>

\* Mutant: the reference is reset but the timer is not cleared.
ClearPendingStopTimer_KeepsTimer ==
    /\ panelTimers' = panelTimers
    /\ pendingStopTimer' = 0

\* subData, first lines: the pending no-response timer is cleared.
ClearPendingStopTimer ==
    /\ panelTimers' = IF pendingStopTimer # 0
                      THEN panelTimers \ {pendingStopTimer} ELSE panelTimers
    /\ pendingStopTimer' = 0

\* Mutant: the profiling flag is left as it was.
SetIdle_KeepsProfiling ==
    /\ isStopping' = FALSE
    /\ UNCHANGED isProfiling

\* subData: setIsStopping(false); setIsProfiling(false).
SetIdle ==
    /\ isStopping' = FALSE
    /\ isProfiling' = FALSE

\* subData: the handler of profile-data. With a path it starts tryEndpoints,
\* whose first fetch is issued at once.
SubData(data) ==
    /\ ClearPendingStopTimer
    /\ SetIdle
    /\ lastPanel' = PanelStep("profile-data")
    /\ LET id == ToDecimal(now)
       IN IF Truthy(data.error)
          THEN /\ traces' = <<ErrorTrace(id, data)>> \o traces
               /\ statusMsg' = <<"Error: ">> \o data.error
               /\ UNCHANGED jobs
          ELSE IF Truthy(data.path)
          THEN /\ traces' = <<Placeholder(id, data)>> \o traces
               /\ statusMsg' = <<"Transforming profile...">>
               /\ jobs' = Append(jobs, [id |-> id, path |-> data.path,
                                        attempt |-> 1, pc |-> "fetch",
                                        ok |-> FALSE, lastErr |-> Null,
                                        json |-> ErrorJson(Undef, Undef),
                                        log |-> <<>>])
          ELSE /\ traces' =
                      LET prev == <<Placeholder(id, data)>> \o traces
                      IN MapTraces(prev, id,
                             [k \in DOMAIN prev |-> NoPathReturned(prev[k])])
               /\ statusMsg' = <<"No path to transform">>
               /\ UNCHANGED jobs
    /\ UNCHANGED <<nextTimerId, clearTimers, presses, sendLog>>

\* res.ok
ResOk(status) == status >= 200 /\ status <= 299

sFailedToFetch ==
    <<"F","a","i","l","e","d"," ","t","o"," ","f","e","t","c","h">>
sHTTP == <<"H","T","T","P"," ">>
sUnknownError ==
    <<"U","n","k","n","o","w","n"," ","e","r","r","o","r">>

\* What one fetch of tryEndpoints may end in: a network error, or a response.
Thrown(message) ==
    [kind |-> "throw", message |-> message, status |-> 0,
     json |-> ErrorJson(Undef, Undef)]
Responded(r) ==
    [kind |-> "response", message |-> Undef, status |-> r.status, json |-> r.json]
\* The responses the transform endpoint gives for the posted path, a response
\* whose body is no JSON (read as {}), and a 200 that says ok: false.
FetchOutcomes(path) ==
    {Thrown(sFailedToFetch),
     Responded(TransformAnswer(path, 1, {})),
     Responded(TransformAnswer(path, 0, {OutputPathOf(path)})),
     Responded(Response(200, ErrorJson(Undef, Undef))),
     Responded(Response(200, Json("false", sTransformFailed, Undef,
                                  Undef, Undef, Undef)))}

\* FetchOutcomes, tabulated for the paths a stop can report.
FetchTable == [p \in {q \in StopPaths : Truthy(q)} |-> FetchOutcomes(p)]

\* if (!res.ok || json?.ok === false), or the fetch threw
AttemptFailed(out) ==
    out.kind = "throw" \/ ~ResOk(out.status) \/ out.json.ok = "false"

\* lastErr after a failed attempt.
LastErrOf(out) ==
    IF out.kind = "throw" THEN out.message
    ELSE OrElse(out.json.stderr,
                OrElse(out.json.error, sHTTP \o ToDecimal(out.status)))

\* Mutant: the loop gives up after the first failed attempt.
TryEndpointsStep_NoRetry(job, out) ==
    LET logged == [job EXCEPT !.log = Append(@, [url |-> Candidates[job.attempt],
                                                 failed |-> AttemptFailed(out)])]
    IN IF AttemptFailed(out)
       THEN [logged EXCEPT !.pc = "done", !.ok = FALSE,
                           !.lastErr = LastErrOf(out)]
       ELSE [logged EXCEPT !.pc = "done", !.ok = TRUE, !.json = out.json]

\* One turn of the loop of tryEndpoints, when the awaited fetch of the
\* current candidate ends in `out`: the next candidate is tried after a
\* failure, the function returns after a success or after the last candidate.
TryEndpointsStep(job, out) ==
    LET logged == [job EXCEPT !.log = Append(@, [url |-> Candidates[job.attempt],
                                                 failed |-> AttemptFailed(out)])]
    IN IF AttemptFailed(out)
       THEN IF job.attempt < Len(Candidates)
            THEN [logged EXCEPT !.attempt = job.attempt + 1,
                                !.lastErr = LastErrOf(out)]
            ELSE [logged EXCEPT !.pc = "done", !.ok = FALSE,
                                !.lastErr = LastErrOf(out)]
       ELSE [logged EXCEPT !.pc = "done", !.ok = TRUE, !.json = out.json]

\* Math.round((transformedBase64.length * 3) / 4), when there is a payload.
TransformedSize(base64) ==
    IF Truthy(base64) THEN (Len(base64) * 3 + 2) \div 4 ELSE NoSize

\* tryEndpoints().then(...): the entry with the job's id is updated.
TracesAfter(job) ==
    LET Failed(t) ==
            [t EXCEPT !.transforming = "false",
                      !.transformError =
                          IF job.lastErr = Null THEN sUnknownError
                          ELSE OrElse(job.lastErr, sUnknownError)]
        Done(t) ==
            [t EXCEPT !.transforming = "false",
                      !.transformedPath = job.json.outputPath,
                      !.size = TransformedSize(job.json.outputBase64),
                      !.filename = OrElse(job.json.outputFilename, t.filename)]
    IN IF job.ok
       THEN MapTraces(traces, job.id, [k \in DOMAIN traces |-> Done(traces[k])])
       ELSE MapTraces(traces, job.id, [k \in DOMAIN traces |-> Failed(traces[k])])

\* The fetch a tryEndpoints call awaits settles.
FetchSettles(j, out) ==
    /\ j \in DOMAIN jobs
    /\ jobs[j].pc = "fetch"
    /\ out \in FetchTable[jobs[j].path]
    /\ LET job == TryEndpointsStep(jobs[j], out)
       IN /\ jobs' = [jobs EXCEPT ![j] = job]
          /\ IF job.pc = "done"
             THEN /\ traces' = TracesAfter(job)
                  /\ statusMsg' = IF job.ok THEN <<"Transform complete">>
                                  ELSE <<"Transform failed">>
                  /\ clearTimers' = IF job.ok THEN clearTimers + 1
                                    ELSE clearTimers
                  /\ lastPanel' = PanelStep("transform-result")
             ELSE UNCHANGED <<traces, statusMsg, clearTimers, lastPanel>>
    /\ UNCHANGED <<bridgeVars, runtimeVars, serverVars, isProfiling,
                   isStopping, pendingStopTimer, panelTimers, nextTimerId,
                   presses, sendLog>>

\* The bridge delivers the next message to the panel.
PanelReceives ==
    /\ toPanel # <<>>
    /\ toPanel' = Tail(toPanel)
    /\ IF Head(toPanel).type = "profiling-started"
       THEN SubStarted
       ELSE SubData(Head(toPanel))
    /\ UNCHANGED <<toRuntime, drops, now, runtimeVars, serverVars>>

\* The bridge loses the next message to the panel (the panel is not
\* connected when it is sent).
BridgeDrops ==
    /\ toPanel # <<>>
    /\ drops < MaxDrops
    /\ drops' = drops + 1
    /\ toPanel' = Tail(toPanel)
    /\ UNCHANGED <<toRuntime, now, runtimeVars, panelVars, serverVars>>

\* onStart
OnStart ==
    IF isProfiling
    THEN UNCHANGED <<isProfiling, statusMsg, toRuntime>>
    ELSE /\ isProfiling' = TRUE
         /\ statusMsg' = <<"Profiling started">>
         /\ toRuntime' = ClientSend(toRuntime, StartProfilingMsg)

\* onStop: at most one no-response timer is kept; the stop message is sent.
OnStop ==
    IF isStopping
    THEN UNCHANGED <<isProfiling, isStopping, statusMsg, toRuntime,
                     pendingStopTimer, panelTimers, nextTimerId>>
    ELSE /\ isStopping' = TRUE
         /\ isProfiling' = FALSE
         /\ statusMsg' = <<"Stopping...">>
         /\ panelTimers' =
                (IF pendingStopTimer # 0 THEN panelTimers \ {pendingStopTimer}
                 ELSE panelTimers) \cup {nextTimerId}
         /\ pendingStopTimer' = nextTimerId
         /\ nextTimerId' = nextTimerId + 1
         /\ toRuntime' = ClientSend(toRuntime, StopProfilingMsg(FALSE))

\* The Start/Stop Pressable: disabled while stopping, onStop while profiling,
\* onStart otherwise.
Press ==
    /\ presses < MaxPresses
    /\ ~isStopping
    /\ presses' = presses + 1
    /\ IF isProfiling
       THEN /\ OnStop
            /\ lastPanel' = PanelStep("onStop")
       ELSE /\ OnStart
            /\ lastPanel' = PanelStep("onStart")
            /\ UNCHANGED <<isStopping, pendingStopTimer, panelTimers,
                           nextTimerId>>
    /\ sendLog' = IF toRuntime' # toRuntime
                  THEN Append(sendLog, toRuntime'[Len(toRuntime')].type)
                  ELSE sendLog
    /\ UNCHANGED <<toPanel, drops, now, runtimeVars, serverVars, traces,
                   clearTimers, jobs>>

sNoResponse == <<"No response from device. Check app logs.">>

\* Mutant: the timer's callback reports the silence but leaves isStopping set.
PanelTimerFires_KeepsStopping(t) ==
    /\ t \in panelTimers
    /\ panelTimers' = panelTimers \ {t}
    /\ statusMsg' = sNoResponse
    /\ lastPanel' = PanelStep("no-response")
    /\ UNCHANGED <<bridgeVars, runtimeVars, serverVars, isProfiling,
                   isStopping, traces, pendingStopTimer, nextTimerId,
                   clearTimers, jobs, presses, sendLog>>

\* The 10 s no-response timer armed by onStop fires.
PanelTimerFires(t) ==
    /\ t \in panelTimers
    /\ panelTimers' = panelTimers \ {t}
    /\ isStopping' = FALSE
    /\ statusMsg' = sNoResponse
    /\ lastPanel' = PanelStep("no-response")
    /\ UNCHANGED <<bridgeVars, runtimeVars, serverVars, isProfiling, traces,
                   pendingStopTimer, nextTimerId, clearTimers, jobs, presses,
                   sendLog>>

\* A timer that clears the status line fires.
StatusClearFires ==
    /\ clearTimers > 0
    /\ clearTimers' = clearTimers - 1
    /\ statusMsg' = Null
    /\ lastPanel' = PanelStep("status-clear")
    /\ UNCHANGED <<bridgeVars, runtimeVars, serverVars, isProfiling,
                   isStopping, traces,
                   pendingStopTimer, panelTimers, nextTimerId, jobs, presses,
                   sendLog>>

\* Date.now() advances.
Tick ==
    /\ now < MaxClock
    /\ now' = now + 1
    /\ UNCHANGED <<toRuntime, toPanel, drops, runtimeVars, panelVars, serverVars>>

\* ------------------------------------------------------------------------
\* Specifications
\* ------------------------------------------------------------------------
\* ------------------------------------------------------------------------
\* Server: startHermesProfilerServer
\* ------------------------------------------------------------------------
\* serverPort before it is assigned, and the server of an early return.
NoPort == 0
NullServer == 0

\* What a call returned: { port, server }, the server being the number of
\* the HTTP server the call created, or null.
Returned(port, server) ==
    [pc |-> "returned", port |-> port, server |-> server]

\* Mutant: the guard is tested but the flag is not set before the await.
StartCall_MarksNothing ==
    /\ Len(calls) < MaxCalls
    /\ IF started
       THEN calls' = Append(calls, Returned(serverPort, NullServer))
       ELSE calls' = Append(calls, [pc |-> "import", port |-> NoPort,
                                    server |-> NullServer])
    /\ UNCHANGED <<bridgeVars, runtimeVars, panelVars, endpointVars,
                   started, serverPort, listeners>>

\* startHermesProfilerServer() up to its first await: a call that finds the
\* flag set returns at once with the port as it is and no server; the other
\* sets the flag and awaits the import of the config.
StartCall ==
    /\ Len(calls) < MaxCalls
    /\ IF started
       THEN /\ calls' = Append(calls, Returned(serverPort, NullServer))
            /\ UNCHANGED started
       ELSE /\ started' = TRUE
            /\ calls' = Append(calls, [pc |-> "import", port |-> NoPort,
                                       server |-> NullServer])
    /\ UNCHANGED <<bridgeVars, runtimeVars, panelVars, endpointVars,
                   serverPort, listeners>>

\* The awaited import settles. When it resolves, the call sets serverPort,
\* builds the app, creates the HTTP server, calls listen and returns; when
\* it rejects, the call rejects and the flag stays set.
ImportSettles(c, ok) ==
    /\ c \in DOMAIN calls
    /\ calls[c].pc = "import"
    /\ IF ok
       THEN /\ serverPort' = DEFAULT_PORT
            /\ listeners' = Append(listeners, [port |-> DEFAULT_PORT,
                                               state |-> "binding"])
            /\ calls' = [calls EXCEPT
                            ![c] = Returned(DEFAULT_PORT, Len(listeners) + 1)]
       ELSE /\ calls' = [calls EXCEPT ![c].pc = "rejected"]
            /\ UNCHANGED <<serverPort, listeners>>
    /\ UNCHANGED <<bridgeVars, runtimeVars, panelVars, endpointVars, started>>

\* server.listen(serverPort, cb): the port is bound and the callback runs,
\* or the bind fails (the port is in use) and the server emits 'error'.
ListenSettles(l, ok) ==
    /\ l \in DOMAIN listeners
    /\ listeners[l].state = "binding"
    /\ ok => \A k \in DOMAIN listeners : listeners[k].state # "listening"
    /\ listeners' = [listeners EXCEPT
                        ![l].state = IF ok THEN "listening" ELSE "error"]
    /\ UNCHANGED <<bridgeVars, runtimeVars, panelVars, endpointVars,
                   started, serverPort, calls>>

\* A listener of this process accepts connections.
Listening == \E l \in DOMAIN listeners : listeners[l].state = "listening"

vars == <<bridgeVars, runtimeVars, panelVars, serverVars>>

\* Files on the server's disk that no transform wrote.
SecretPath == <<"/","s","/">> \o sProfileStem \o sConverted
PasswdPath == <<"/","e","t","c","/","p","a","s","s","w","d">>
InitialFiles == {SecretPath}

Init ==
    /\ toRuntime = <<>> /\ toPanel = <<>> /\ drops = 0 /\ now = 0
    /\ starts = <<>> /\ handlers = <<>>
    /\ isProfiling = FALSE /\ isStopping = FALSE /\ statusMsg = Null
    /\ traces = <<>> /\ pendingStopTimer = 0
    /\ panelTimers = {} /\ nextTimerId = 1 /\ clearTimers = 0
    /\ jobs = <<>> /\ presses = 0 /\ sendLog = <<>>
    /\ lastPanel = [op |-> "init", wasProfiling |-> FALSE, wasStopping |-> FALSE]
    /\ profilePathCache = <<>> /\ fsFiles = InitialFiles
    /\ transforms = <<>> /\ opens = <<>> /\ requests = 0
    /\ registered = <<>> /\ produced = {} /\ served = {}
    /\ lastGet = [filename |-> <<>>, status |-> 0, error |-> Undef,
                  consulted |-> FALSE, readPath |-> Undef]
    /\ started = FALSE /\ serverPort = NoPort
    /\ calls = <<>> /\ listeners = <<>>

\* A profiling session end to end: the panel's button and timers, the
\* bridge, and the runtime's handlers. The transform of a received trace
\* (tryEndpoints) runs on its own and is specified in SpecPanel.
Next ==
    \/ Press
    \/ PanelReceives
    \/ BridgeDrops
    \/ \E t \in panelTimers : PanelTimerFires(t)
    \/ \E threw \in BOOLEAN : SubStart(threw)
    \/ \E throws \in BOOLEAN : SubStop(throws)
    \/ \E i \in DOMAIN handlers : \E path \in StopPaths : StopResolves(i, path)
    \/ \E i \in DOMAIN handlers : StopRejects(i)
    \/ \E i \in DOMAIN handlers : RuntimeTimerFires(i)
    \/ \E i \in DOMAIN handlers : \E ok \in BOOLEAN : ReadFileSettles(i, ok)
    \/ \E i \in DOMAIN handlers : \E ok \in BOOLEAN : StatSettles(i, ok)

Spec == Init /\ [][Next]_vars

\* The panel's event loop runs a timer that is due. Nothing is assumed of
\* the bridge or of the runtime, which may never answer.
FairSession == Spec /\ WF_vars(\E t \in panelTimers : PanelTimerFires(t))

\* The panel sends a message to the runtime (any message, in any order).
PanelSends(msg) ==
    /\ Len(starts) + Len(handlers) + Len(toRuntime) < MaxMessages
    /\ toRuntime' = ClientSend(toRuntime, msg)
    /\ UNCHANGED <<toPanel, drops, now, runtimeVars, panelVars, serverVars>>

\* The runtime alone, whatever the panel sends it.
NextRuntime ==
    \/ \E msg \in {StartProfilingMsg, StopProfilingMsg(FALSE)} : PanelSends(msg)
    \/ \E threw \in BOOLEAN : SubStart(threw)
    \/ \E throws \in BOOLEAN : SubStop(throws)
    \/ \E i \in DOMAIN handlers : \E path \in StopPaths : StopResolves(i, path)
    \/ \E i \in DOMAIN handlers : StopRejects(i)
    \/ \E i \in DOMAIN handlers : RuntimeTimerFires(i)
    \/ \E i \in DOMAIN handlers : \E ok \in BOOLEAN : ReadFileSettles(i, ok)
    \/ \E i \in DOMAIN handlers : \E ok \in BOOLEAN : StatSettles(i, ok)
    \/ Tick

SpecRuntime == Init /\ [][NextRuntime]_vars

\* The runtime's event loop runs every timer that is due, and the file
\* system completes every read and stat it was asked for. Nothing is assumed
\* of the external stopProfiling, which may never settle.
FairRuntime ==
    /\ SpecRuntime
    /\ \A i \in 1..MaxMessages :
          /\ WF_vars(RuntimeTimerFires(i))
          /\ WF_vars(\E ok \in BOOLEAN : ReadFileSettles(i, ok))
          /\ WF_vars(\E ok \in BOOLEAN : StatSettles(i, ok))

\* Events the runtime may send the panel.
RuntimeEvents ==
    {ProfilingStartedMsg(0),
     ProfileErrorMsg(sProfilerTimeout),
     ProfileDataMsg(sProfileStem \o sCpuprofile, RawTracePath,
                    Base64(RawTraceBytes), Len(RawTraceBytes), sOctet, Undef),
     ProfileDataMsg(sDefaultName, <<>>, Undef, NoSize, sOctet, Undef)}

\* The runtime sends the panel an event.
RuntimeSends(msg) ==
    /\ Len(traces) + Len(toPanel) < MaxEvents
    /\ toPanel' = ClientSend(toPanel, msg)
    /\ UNCHANGED <<toRuntime, drops, now, runtimeVars, panelVars, serverVars>>

\* The panel alone: the events it receives and the transforms it runs.
NextPanel ==
    \/ \E msg \in RuntimeEvents : RuntimeSends(msg)
    \/ PanelReceives
    \/ \E j \in DOMAIN jobs : \E out \in FetchTable[jobs[j].path] :
          FetchSettles(j, out)
    \/ StatusClearFires
    \/ Tick

SpecPanel == Init /\ [][NextPanel]_vars

\* The panel's handling of profile-data and its transforms alone: the
\* events that add an entry to the trace list, and the fetches.
NextTransforms ==
    \/ \E msg \in RuntimeEvents \ {ProfilingStartedMsg(0)} : RuntimeSends(msg)
    \/ PanelReceives
    \/ \E j \in DOMAIN jobs : \E out \in FetchTable[jobs[j].path] :
          FetchSettles(j, out)
    \/ Tick

SpecTransforms == Init /\ [][NextTransforms]_vars

\* Every HTTP request of the panel completes or fails: the fetch a
\* tryEndpoints call awaits settles.
FairTransforms ==
    /\ SpecTransforms
    /\ \A j \in 1..MaxEvents :
          WF_vars(\E out \in FetchTable[RawTracePath] : FetchSettles(j, out))

\* Paths a client may post to /open, and filenames it may GET.
ConvertedName == sProfileStem \o sConverted
OutputPath == sCwd \o <<"/">> \o ConvertedName
OpenPaths == {Undef, OutputPath, SecretPath, ConvertedName, PasswdPath}
ClientFilenames ==
    {ConvertedName,
     <<"p","a","s","s","w","d">>,
     <<"p","r","o","f","i","l","e","-","a","-","1","-","B">> \o sConverted,
     sProfileStem \o <<"-","c","o","n","v","e","r","t","e","d","x","j","s","o","n">>,
     ConvertedName \o <<"x">>}

\* The start of the server: the calls of startHermesProfilerServer, the
\* import and the bind they wait for, and the GET requests a listening
\* server answers.
NextStartup ==
    \/ StartCall
    \/ \E c \in DOMAIN calls : \E ok \in BOOLEAN : ImportSettles(c, ok)
    \/ \E l \in DOMAIN listeners : \E ok \in BOOLEAN : ListenSettles(l, ok)
    \/ \E f \in ClientFilenames : Listening /\ ProfileRequest(f)

SpecStartup == Init /\ [][NextStartup]_vars

\* The dev server and its clients.
NextServer ==
    \/ \E p \in TransformPaths : TransformRequest(p)
    \/ \E i \in DOMAIN transforms : \E code \in {0, 1} : \E wrote \in BOOLEAN :
          ChildCloses(i, code, wrote)
    \/ \E f \in ClientFilenames : ProfileRequest(f)
    \/ \E p \in OpenPaths : OpenRequest(p)
    \/ \E i \in DOMAIN opens : \E ok \in BOOLEAN : OpenSettles(i, ok)
    \/ \E f \in fsFiles : FileRemoved(f)

SpecServer == Init /\ [][NextServer]_vars

\* Every converter the server spawned closes: the operating system reports
\* the end of the subprocess, which is a batch tool.
FairServer ==
    /\ SpecServer
    /\ \A i \in 1..MaxRequests :
          WF_vars(\E code \in {0, 1} : \E wrote \in BOOLEAN :
                     ChildCloses(i, code, wrote))

\* ------------------------------------------------------------------------
\* Claims about the runtime
\* ------------------------------------------------------------------------
\* The profile-data events on the bridge (the runtime's specifications never
\* take one off it).
ProfileDataSent == {k \in DOMAIN toPanel : toPanel[k].type = "profile-data"}
DoneHandlers == {i \in DOMAIN handlers : handlers[i].pc = "done"}
FailedStarts == {k \in DOMAIN starts : ~starts[k].began}
\* The i-th invocation of the stop handler awaits the race / has replied.
Racing(i) == i \in DOMAIN handlers /\ handlers[i].pc = "race"
Replied(i) == i \in DOMAIN handlers /\ handlers[i].sent = 1

\* C1: every stop-profiling message the handler receives is answered by
\* exactly one profile-data event: a handler invocation has sent nothing
\* while it waits and one event once it has ended, the bridge holds one
\* profile-data event per ended invocation (and per failed start), and every
\* invocation does send its event (none stays unanswered for ever), whether
\* stopProfiling resolves, rejects, throws or never settles.
C1_ExactlyOneProfileData ==
    /\ [](\A i \in DOMAIN handlers :
            handlers[i].sent = IF handlers[i].pc = "done" THEN 1 ELSE 0)
    /\ [](Cardinality(ProfileDataSent)
            = Cardinality(DoneHandlers) + Cardinality(FailedStarts))
    /\ \A i \in 1..MaxMessages :
          <>[](i \in DOMAIN handlers => Replied(i))

\* C1 witness: stopProfiling resolved first, the 9 s timer fired later, and
\* one success event was sent.
C1_Witness ==
    \E i \in DOMAIN handlers :
        /\ handlers[i].stopOp = "resolved"
        /\ handlers[i].timer = "fired"
        /\ handlers[i].pc = "done"
        /\ handlers[i].sent = 1
        /\ handlers[i].reply.error = Undef

\* C2: while the handler waits for stopProfiling the 9 s timer is armed; when
\* the timer fires during the wait the handler stops waiting and sends a
\* profile-data event whose error is the timeout; and no invocation waits
\* in the race for ever.
C2_TimeoutBoundsTheWait ==
    /\ [](\A i \in DOMAIN handlers :
            handlers[i].pc = "race" => handlers[i].timer = "armed")
    /\ [][\A i \in DOMAIN handlers :
            (handlers[i].pc = "race" /\ handlers'[i].timer = "fired")
            => /\ handlers'[i].pc = "done"
               /\ handlers'[i].reply = ProfileErrorMsg(sProfilerTimeout)
               /\ toPanel' = Append(toPanel, ProfileErrorMsg(sProfilerTimeout))]_vars
    /\ \A i \in 1..MaxMessages :
          <>[]~Racing(i)

\* C2 witness: stopProfiling is still pending, the timer has fired, and the
\* timeout error is on the bridge.
C2_Witness ==
    \E i \in DOMAIN handlers :
        /\ handlers[i].stopOp = "pending"
        /\ handlers[i].timer = "fired"
        /\ handlers[i].pc = "done"
        /\ \E k \in DOMAIN toPanel :
              /\ toPanel[k].type = "profile-data"
              /\ toPanel[k].error = sProfilerTimeout

\* An event that carries trace bytes: the payload with a name, a size and a
\* MIME type.
CarriesTrace(m) ==
    /\ Truthy(m.base64)
    /\ Truthy(m.filename)
    /\ m.size # NoSize
    /\ Truthy(m.mime)

\* C8 (as claimed): every profile-data event sent in response to
\* stop-profiling carries trace bytes or an error string.
C8_PayloadOrError ==
    \A i \in DoneHandlers :
        CarriesTrace(handlers[i].reply) \/ Truthy(handlers[i].reply.error)

\* C8 (amended): every profile-data event sent in response to stop-profiling
\* is either an error event (an error string and nothing else) or a trace
\* event with a non-empty filename, the MIME type and the path stopProfiling
\* reported; a trace event has the payload only when there was a path to
\* read, and a size only when it has the payload.
C8_ErrorOrNamedTrace ==
    \A i \in DoneHandlers :
        LET m == handlers[i].reply
        IN /\ m.type = "profile-data"
           /\ \/ /\ Truthy(m.error)
                 /\ m.filename = Undef /\ m.path = Undef /\ m.base64 = Undef
                 /\ m.size = NoSize /\ m.mime = Undef
              \/ /\ m.error = Undef
                 /\ Truthy(m.filename)
                 /\ m.mime = sOctet
                 /\ m.path = handlers[i].path
                 /\ handlers[i].stopOp = "resolved"
                 /\ m.base64 # Undef => Truthy(m.path)
                 /\ m.size # NoSize => m.base64 # Undef

\* C8 witness: a trace event without payload and without error (the file
\* could not be read).
C8_Witness ==
    \E k \in DOMAIN toPanel :
        /\ toPanel[k].type = "profile-data"
        /\ toPanel[k].error = Undef
        /\ toPanel[k].base64 = Undef
        /\ Truthy(toPanel[k].path)

\* C9 (as claimed): every start-profiling message begins a capture and is
\* acknowledged with profiling-started.
C9_EveryStartAcknowledged ==
    \A k \in DOMAIN starts :
        starts[k].began /\ starts[k].reply.type = "profiling-started"

\* C9 (amended): every start-profiling message gets exactly one reply: when
\* startProfiling() returned, one profiling-started event with the time of
\* the handling; when it threw, no profiling-started but one profile-data
\* event with the error.
C9_AckOrError ==
    /\ \A k \in DOMAIN starts :
          IF starts[k].began
          THEN /\ starts[k].reply.type = "profiling-started"
               /\ starts[k].reply.timestamp = starts[k].at
          ELSE /\ starts[k].reply.type = "profile-data"
               /\ starts[k].reply.error # Undef
    /\ Cardinality({k \in DOMAIN toPanel : toPanel[k].type = "profiling-started"})
          = Cardinality(DOMAIN starts \ FailedStarts)
    /\ Len(toPanel) = Len(starts) + Cardinality(DoneHandlers)

\* C9 witness: one start acknowledged after the clock advanced, one refused.
C9_Witness ==
    /\ \E k \in DOMAIN starts :
          starts[k].began /\ starts[k].reply.timestamp > 0
    /\ \E k \in DOMAIN starts : ~starts[k].began

\* ------------------------------------------------------------------------
\* Claims about the panel
\* ------------------------------------------------------------------------
\* C3: right after the panel has handled a profile-data event it is idle,
\* whatever state it was in.
C3_IdleAfterProfileData ==
    lastPanel.op = "profile-data" => ~isProfiling /\ ~isStopping

\* C3 witness: a success event was handled while the panel was stopping.
C3_Witness ==
    /\ lastPanel.op = "profile-data"
    /\ lastPanel.wasStopping
    /\ traces # <<>>
    /\ traces[1].error = Undef
    /\ ~isProfiling /\ ~isStopping

\* C4 (as claimed): the panel never sends two stop-profiling messages
\* without a start-profiling message between them.
C4_OneStopPerSession ==
    \A k \in 1..(Len(sendLog) - 1) :
        ~(sendLog[k] = "stop-profiling" /\ sendLog[k + 1] = "stop-profiling")

\* C10: every profile-data event with a path and no error starts one
\* tryEndpoints call; a call requests localhost first and 127.0.0.1 second,
\* the second only after the first failed, nothing after a success, and it
\* returns a failure exactly when both attempts failed.
C10_TwoAddressesInOrder ==
    /\ Len(jobs) = Cardinality({k \in DOMAIN traces : Truthy(traces[k].path)})
    /\ \A j \in DOMAIN jobs :
          LET log == jobs[j].log
              inFlight == IF jobs[j].pc = "fetch" THEN 1 ELSE 0
          IN /\ Len(log) + inFlight <= 2
             /\ Len(log) + inFlight >= 1
             /\ \A k \in DOMAIN log :
                   /\ log[k].url.host = (IF k = 1 THEN "localhost" ELSE "127.0.0.1")
                   /\ log[k].url.route = "/rozenite/hermes/transform"
                   /\ k < Len(log) + inFlight => log[k].failed
                   /\ ~log[k].failed =>
                         k = Len(log) /\ jobs[j].pc = "done" /\ jobs[j].ok
             /\ jobs[j].pc = "fetch" => jobs[j].attempt = Len(log) + 1
             /\ (jobs[j].pc = "done" /\ ~jobs[j].ok)
                   <=> (Len(log) = 2 /\ log[1].failed /\ log[2].failed)

\* C10 witness: the first address failed and the second succeeded.
C10_Witness ==
    \E j \in DOMAIN jobs :
        /\ Len(jobs[j].log) = 2
        /\ jobs[j].log[1].failed
        /\ ~jobs[j].log[2].failed
        /\ jobs[j].ok
        /\ \E k \in DOMAIN traces :
              traces[k].id = jobs[j].id /\ Truthy(traces[k].transformedPath)

\* ------------------------------------------------------------------------
\* Claims about the server
\* ------------------------------------------------------------------------
AllIn(s, from, to, set) == \A k \in from..to : s[k] \in set

\* The strict pattern, stated by its shape: "profile-", one or more of
\* A-F 0-9 and '-', a '-', one or more digits, a '-', one or more of A-F 0-9,
\* and "-converted.json".
StrictName(f) ==
    LET n == Len(f)
        stemEnd == n - Len(sConverted)
    IN /\ n >= 8 + 5 + Len(sConverted)
       /\ SubSeq(f, 1, 8) = <<"p","r","o","f","i","l","e","-">>
       /\ SubSeq(f, stemEnd + 1, n) = sConverted
       /\ \E i, j \in 9..stemEnd :
             /\ 9 < i /\ i + 1 < j /\ j < stemEnd
             /\ AllIn(f, 9, i - 1, HexUpper \cup {"-"})
             /\ f[i] = "-"
             /\ AllIn(f, i + 1, j - 1, Digit)
             /\ f[j] = "-"
             /\ AllIn(f, j + 1, stemEnd, HexUpper)

\* C5: a GET whose filename does not have the strict shape is answered 400
\* invalid_filename, without the cache being consulted or a file read,
\* whatever the cache holds.
C5_InvalidFilenameRejected ==
    (lastGet.status # 0 /\ ~StrictName(lastGet.filename)) =>
        /\ lastGet.status = 400
        /\ lastGet.error = sInvalidFilename
        /\ ~lastGet.consulted
        /\ lastGet.readPath = Undef

\* C5 witness: the rejected filename is registered in the cache.
C5_Witness ==
    /\ lastGet.status = 400
    /\ lastGet.filename \in DOMAIN profilePathCache

\* The step is a GET of a profile.
IsProfileRequest ==
    requests' # requests /\ transforms' = transforms /\ opens' = opens

\* C6 (as claimed): a GET of a well-formed filename reads exactly the path
\* most recently registered for it by an earlier /open, that path being
\* absolute; with no registration, or the registered file gone, it answers
\* 404 and reads nothing.
C6_ServesRegisteredAbsolutePath ==
    [][(IsProfileRequest /\ StrictName(lastGet'.filename)) =>
          LET regs == {k \in DOMAIN registered :
                          registered[k].filename = lastGet'.filename}
              latest == registered[MaxOf(regs)].path
          IN IF regs = {} \/ Resolve(latest) \notin fsFiles
             THEN /\ lastGet'.status = 404
                  /\ lastGet'.error = sNotFound
                  /\ lastGet'.readPath = Undef
             ELSE /\ lastGet'.status = 200
                  /\ lastGet'.readPath = latest
                  /\ IsAbsolute(lastGet'.readPath)]_vars

\* C7 (as claimed): the serving endpoint returns the content of no file but
\* the converted profiles the transform step produced.
C7_OnlyTransformOutputsServed == served \subseteq produced

\* ------------------------------------------------------------------------
\* Claims about the panel's three states and its no-response timer
\* ------------------------------------------------------------------------
\* C11 (as claimed): the panel is idle, profiling or stopping, never
\* profiling and stopping at once.
C11_NeverProfilingAndStopping == ~(isProfiling /\ isStopping)

\* C14: while the panel is stopping, the no-response timer armed by that stop
\* is pending; when a timer fires, isStopping becomes false (the button is
\* enabled again) and the status reports that the device did not respond;
\* and the panel does not stay in the stopping state for ever, whether or not
\* the runtime answers.
C14_NoResponseTimerFreesThePanel ==
    /\ [](isStopping => pendingStopTimer \in panelTimers)
    /\ [][(panelTimers' # panelTimers /\ toPanel' = toPanel
              /\ presses' = presses)
          => /\ ~isStopping'
             /\ statusMsg' = sNoResponse
             /\ isProfiling' = isProfiling]_vars
    /\ []<>~isStopping

\* C14 witness: the timer fired while the panel was stopping and the runtime
\* had not handled the stop.
C14_Witness ==
    /\ lastPanel.op = "no-response"
    /\ lastPanel.wasStopping
    /\ ~isStopping
    /\ statusMsg = sNoResponse
    /\ handlers = <<>>
    /\ \E k \in DOMAIN sendLog : sendLog[k] = "stop-profiling"

\* The step handles a profile-data event.
HandlesProfileData ==
    /\ toPanel # <<>>
    /\ Head(toPanel).type = "profile-data"
    /\ toPanel' = Tail(toPanel)
    /\ drops' = drops

\* C15: at most one no-response timer is pending, the one pendingStopTimer
\* refers to; handling a profile-data event leaves no timer pending; and a
\* timer that becomes pending is a new one, armed by a later stop. So no timer
\* armed before a profile-data event was handled fires after it.
C15_OneTimerClearedByResponse ==
    /\ [](/\ Cardinality(panelTimers) <= 1
          /\ panelTimers \subseteq {pendingStopTimer}
          /\ \A t \in panelTimers : t < nextTimerId)
    /\ [][HandlesProfileData => panelTimers' = {}]_vars
    /\ [][/\ nextTimerId' >= nextTimerId
          /\ panelTimers' \ panelTimers \subseteq {nextTimerId}
          /\ panelTimers' # panelTimers /\ panelTimers' # {}
                => sendLog' = Append(sendLog, "stop-profiling")]_vars

\* C15 witness: a profile-data event was handled while the second timer of
\* the session was pending (the first had fired), and none is pending now.
C15_Witness ==
    /\ lastPanel.op = "profile-data"
    /\ lastPanel.wasStopping
    /\ nextTimerId = 3
    /\ pendingStopTimer = 0
    /\ panelTimers = {}

\* ------------------------------------------------------------------------
\* Claims about the server's cache and its open and transform handlers
\* ------------------------------------------------------------------------
\* C12: no step takes a filename out of the cache, so every filename an open
\* request registered is in it, whether that request then failed or not; and
\* a GET of a registered well-formed filename finds the entry: it answers
\* from the cached path, 200 when the file is there.
C12_CacheEntriesStay ==
    /\ [][\A f \in DOMAIN profilePathCache : f \in DOMAIN profilePathCache']_vars
    /\ [](\A k \in DOMAIN registered :
            registered[k].filename \in DOMAIN profilePathCache)
    /\ [](\A i \in DOMAIN opens :
            Truthy(opens[i].path) => Basename(opens[i].path) \in DOMAIN profilePathCache)
    /\ [][(IsProfileRequest /\ StrictName(lastGet'.filename)
             /\ \E i \in DOMAIN opens :
                   Basename(opens[i].path) = lastGet'.filename)
          => /\ lastGet'.consulted
             /\ lastGet'.filename \in DOMAIN profilePathCache
             /\ IF Resolve(profilePathCache[lastGet'.filename]) \in fsFiles
                THEN /\ lastGet'.status = 200
                     /\ lastGet'.readPath = profilePathCache[lastGet'.filename]
                ELSE lastGet'.status = 404]_vars

\* C12 witness: an open request failed with 500 and a later GET of its
\* filename was answered from the cache.
C12_Witness ==
    \E i \in DOMAIN opens :
        /\ opens[i].response.status = 500
        /\ lastGet.filename = Basename(opens[i].path)
        /\ lastGet.status = 200
        /\ lastGet.readPath = opens[i].path

\* C13: an open request with a path registers its filename in the step that
\* receives it, before anything is opened; it opens chrome://inspect first
\* and the DevTools URL second, the second only after the first has returned
\* (and after the pause); it answers ok only when both were opened, once; and
\* when an awaited step fails it answers 500 and opens nothing further.
C13_OpenStepsInOrder ==
    /\ [](\A i \in DOMAIN opens :
            LET o == opens[i]
            IN /\ o.pc \in {"import", "inspect"} => o.opened = <<>>
               /\ o.pc \in {"pause", "devtools"} => o.opened = <<"chrome://inspect">>
               /\ o.pc = "done" =>
                     \/ o.opened = <<"chrome://inspect", "devtools">>
                            /\ o.response.status = 200
                     \/ o.opened \in {<<>>, <<"chrome://inspect">>}
                            /\ o.response.status = 500 /\ Truthy(o.path)
                     \/ o.opened = <<>> /\ o.response.status = 400
                            /\ ~Truthy(o.path)
               /\ o.pc # "done" =>
                     /\ o.response = NoResponse
                     /\ Truthy(o.path)
                     /\ Basename(o.path) \in DOMAIN profilePathCache)
    /\ [][\A i \in DOMAIN opens' :
            IF i \in DOMAIN opens
            THEN /\ opens[i].pc = "done" => opens'[i] = opens[i]
                 /\ SubSeq(opens'[i].opened, 1, Len(opens[i].opened))
                       = opens[i].opened
            ELSE /\ opens'[i].opened = <<>>
                 /\ Truthy(opens'[i].path) =>
                       /\ opens'[i].pc = "import"
                       /\ registered' = Append(registered,
                             [filename |-> Basename(opens'[i].path),
                              path |-> opens'[i].path])
                       /\ profilePathCache'[Basename(opens'[i].path)]
                             = opens'[i].path]_vars

\* C13 witness: an open request answered ok after both opens.
C13_Witness ==
    \E i \in DOMAIN opens :
        /\ opens[i].pc = "done"
        /\ opens[i].opened = <<"chrome://inspect", "devtools">>
        /\ opens[i].response.status = 200

\* An open request that failed at the DevTools URL, chrome://inspect open.
C13_WitnessFailed ==
    \E i \in DOMAIN opens :
        /\ opens[i].pc = "done"
        /\ opens[i].opened = <<"chrome://inspect">>
        /\ opens[i].response.status = 500

C18_TraceIdsDistinct ==
    \A a \in DOMAIN traces : \A b \in DOMAIN traces :
        a # b => traces[a].id # traces[b].id

\* C17: an entry that is transforming has a transform request in flight; it
\* leaves the transforming state in the step in which a tryEndpoints call
\* finishes (success, or failure on both addresses) or in which a
\* profile-data without path is handled, and then has transforming = false;
\* and no entry is transforming for ever. Entries are numbered from the end
\* of the list, where the oldest one is.
C17_TransformingEnds ==
    /\ [](\A k \in DOMAIN traces :
            traces[k].transforming = "true"
            => \E j \in DOMAIN jobs :
                  jobs[j].id = traces[k].id /\ jobs[j].pc = "fetch")
    /\ [][\A n \in 1..Len(traces) :
            LET before == traces[Len(traces) - n + 1]
                after == traces'[Len(traces') - n + 1]
            IN (before.transforming = "true" /\ after.transforming # "true")
               => /\ after.transforming = "false"
                  /\ \/ lastPanel'.op = "transform-result"
                     \/ /\ lastPanel'.op = "profile-data"
                        /\ statusMsg' = <<"No path to transform">>]_vars
    /\ \A n \in 1..MaxEvents :
          <>[](n <= Len(traces)
               => traces[Len(traces) - n + 1].transforming # "true")

\* C17 witness: two entries were added as transforming; one ended by a
\* successful transform and the other by the failure of both addresses.
C17_Witness ==
    /\ \E k \in DOMAIN traces :
          /\ traces[k].transforming = "false"
          /\ traces[k].transformedPath = OutputPathOf(RawTracePath)
    /\ \E k \in DOMAIN traces :
          /\ traces[k].transforming = "false"
          /\ traces[k].transformError = sFailedToFetch
    /\ \A j \in DOMAIN jobs : jobs[j].pc = "done"
    /\ Len(jobs) = 2

\* C20: an entry recorded with an error or a transformError has no
\* transformedPath, so that it does not offer 'Open in Chrome DevTools'.
C20_NoOpenForFailedEntries ==
    \A k \in DOMAIN traces :
        (Truthy(traces[k].error) \/ Truthy(traces[k].transformError))
        => ~Truthy(traces[k].transformedPath)

\* ------------------------------------------------------------------------
\* Claims about the start of the server
\* ------------------------------------------------------------------------
\* C19: however many calls of startHermesProfilerServer there are and
\* however they interleave with the awaited import, at most one HTTP server
\* is created and started, by the first call; every other call returns no
\* server.
C19_AtMostOneListener ==
    /\ Len(listeners) <= 1
    /\ \A c \in DOMAIN calls :
          /\ calls[c].server # NullServer
             => c = 1 /\ calls[c].server \in DOMAIN listeners
          /\ c > 1 => calls[c].pc = "returned" /\ calls[c].server = NullServer
    /\ listeners # <<>> => started

\* C19 witness: a second call was made while the first awaited the import
\* and returned without server and without port; the first call then created
\* the one listener, and a third call returned its port.
C19_Witness ==
    /\ Len(calls) = 3
    /\ calls[1] = Returned(DEFAULT_PORT, 1)
    /\ calls[2] = Returned(NoPort, NullServer)
    /\ calls[3] = Returned(DEFAULT_PORT, NullServer)
    /\ Len(listeners) = 1
    /\ listeners[1].state = "listening"

====
